---- MODULE Spec2Model ----
(***************************************************************************)
(* The Unlambda compiler and stack VM of relambda (src/src/lib.rs).        *)
(*                                                                         *)
(* A program (a syntax tree) is compiled to a linear opcode array that     *)
(* starts with three fixed microcode blocks; run_vm executes it, one loop  *)
(* iteration per step.  Indices (pc, promise addresses, return frames) are *)
(* the 0-based indices of the source; code[i] of the source is Op(c, i).   *)
(***************************************************************************)
EXTENDS Integers, Sequences, FiniteSets, TLC

VARIABLES
    program,    \* the SyntaxTree handed to compile_toplevel
    code,       \* the opcode array compile_toplevel returned
    vm_state,   \* VmState: [stack, rstack, pc, cur_char]
    consumed,   \* number of code points Read has taken from standard input
    eof,        \* standard input has reported its end
    output,     \* characters written to standard output
    status,     \* "running" | "finished" | "exited" | "panic"
    result,     \* run_vm's return value (None while running)
    steps,      \* number of loop iterations run_vm has executed
    last        \* history of the last iteration: the VmState before it (pre)
                \* and after its opcode, before the auto-return check (mid),
                \* and the opcode's Outcome (printed, panic, assert_ok)

vars ==
    <<program, code, vm_state, consumed, eof, output, status, result, steps, last>>

(***************************************************************************)
(* Bounds of the model.                                                    *)
(***************************************************************************)
\* Every syntax tree with at most MaxLeaves combinators is a program.
MaxLeaves == 3
\* Standard input holds at most MaxInput code points.
MaxInput == 1
\* run_vm is followed for at most MaxSteps loop iterations.
MaxSteps == 100

\* Characters of programs (?x, .x) and of standard input.
Chars == {"a", "b"}
Newline == "\n"

None == <<"None">>
Some(x) == <<"Some", x>>

(***************************************************************************)
(* parse.rs: Combinator and SyntaxTree.                                    *)
(***************************************************************************)
Combinator ==
    {<<"I">>, <<"K">>, <<"S">>, <<"V">>, <<"D">>, <<"C">>, <<"E">>,
     <<"Read">>, <<"Reprint">>}
    \cup {<<"Compare", ch>> : ch \in {"a"}}
    \cup {<<"Dot", ch>> : ch \in {"a"}}

Leaf(c) == <<"Combinator", c>>
App(func, arg) == <<"Application", func, arg>>

IsApplication(st) == st[1] = "Application"

(***************************************************************************)
(* lib.rs: Function values.  K1(v) is <<"K1", v>>, D1(e) is <<"D1", e>>    *)
(* with e one of <<"Promise", at>>, <<"Function", f>>,                     *)
(* <<"Application", f, g>>; C1(s) is <<"C1", s>> with s a VmState.         *)
(***************************************************************************)
I == <<"I">>
K == <<"K">>
S == <<"S">>
V == <<"V">>
D == <<"D">>
C == <<"C">>
E == <<"E">>
K1(v) == <<"K1", v>>
S1(v) == <<"S1", v>>
S2(v1, v2) == <<"S2", v1, v2>>
D1(e) == <<"D1", e>>
C1(s) == <<"C1", s>>
Dot(ch) == <<"Dot", ch>>
Promise(at) == <<"Promise", at>>
Function(f) == <<"Function", f>>
Application(f, g) == <<"Application", f, g>>

from_combinator(c) ==
    CASE c[1] = "I" -> I
      [] c[1] = "K" -> K
      [] c[1] = "S" -> S
      [] c[1] = "V" -> V
      [] c[1] = "D" -> D
      [] c[1] = "C" -> C
      [] c[1] = "E" -> E
      [] c[1] = "Read" -> <<"Read">>
      [] c[1] = "Reprint" -> <<"Reprint">>
      [] c[1] = "Compare" -> <<"Compare", c[2]>>
      [] c[1] = "Dot" -> Dot(c[2])

(***************************************************************************)
(* lib.rs: OpCode, the microcode blocks and their addresses.               *)
(***************************************************************************)
Placeholder == <<"Placeholder">>
PushImmediate(c) == <<"PushImmediate", c>>
Swap == <<"Swap">>
Rot == <<"Rot">>
CheckSuspend(off) == <<"CheckSuspend", off>>
CheckDynamicSuspend(off) == <<"CheckDynamicSuspend", off>>
Invoke == <<"Invoke">>
Finish == <<"Finish">>

S2_START == 0
S2_LEN == 5
S2_END == S2_START + S2_LEN
S2_CODE == <<Invoke, CheckDynamicSuspend(4), Rot, Invoke, Invoke>>

D1_PROMISE_START == S2_END
D1_PROMISE_LEN == 2
D1_PROMISE_END == D1_PROMISE_START + D1_PROMISE_LEN
D1_PROMISE_CODE == <<Swap, Invoke>>

D1_APPLICATION_START == D1_PROMISE_END
D1_APPLICATION_LEN == 3
D1_APPLICATION_END == D1_APPLICATION_START + D1_APPLICATION_LEN
D1_APPLICATION_CODE == <<Invoke, Swap, Invoke>>

\* code[i] of the source (0-based).
Op(c, i) == c[i + 1]

(***************************************************************************)
(* lib.rs: compile and compile_toplevel.                                   *)
(***************************************************************************)
RECURSIVE compile(_, _), compile_offset_to_invoke(_, _)
\* C19 mutant: the CheckSuspend offset stops at the Invoke, one short.
compile_offset_to_invoke(st, c) ==
    IF IsApplication(st)
    THEN LET c1 == compile(st[2], c)
             placeholder_position == Len(c1)
             c2 == Append(c1, Placeholder)
             c3 == compile(st[3], c2)
             c4 == Append(c3, Invoke)
             next_position == Len(c4)
         IN  [c4 EXCEPT ![placeholder_position + 1] =
                 CheckSuspend(next_position - 1 - placeholder_position)]
    ELSE Append(c, PushImmediate(st[2]))

compile(st, c) ==
    IF IsApplication(st)
    THEN LET c1 == compile(st[2], c)
             placeholder_position == Len(c1)
             c2 == Append(c1, Placeholder)
             c3 == compile(st[3], c2)
             c4 == Append(c3, Invoke)
             next_position == Len(c4)
         IN  [c4 EXCEPT ![placeholder_position + 1] =
                 CheckSuspend(next_position - placeholder_position)]
    ELSE Append(c, PushImmediate(st[2]))

\* C24 mutant: the two D1 blocks are emitted in the other order.
compile_toplevel_d1_blocks_swapped(st) ==
    LET prologue == S2_CODE \o D1_APPLICATION_CODE \o D1_PROMISE_CODE
        entry_point == Len(prologue)
    IN  [code |-> Append(compile(st, prologue), Finish),
         entry_point |-> entry_point]

\* Returns [code, entry_point].
compile_toplevel(st) ==
    LET prologue == S2_CODE \o D1_PROMISE_CODE \o D1_APPLICATION_CODE
        entry_point == Len(prologue)
    IN  [code |-> Append(compile(st, prologue), Finish),
         entry_point |-> entry_point]

(***************************************************************************)
(* lib.rs: VmState and push_rstack.  A frame is <<to, from>>.              *)
(***************************************************************************)
VmState(stack, rstack, pc, cur_char) ==
    [stack |-> stack, rstack |-> rstack, pc |-> pc, cur_char |-> cur_char]

Top(s) == s[Len(s)]
Pop(s) == SubSeq(s, 1, Len(s) - 1)
PopN(s, n) == SubSeq(s, 1, Len(s) - n)

\* C2 mutant: no coalescing, every frame is pushed.
push_rstack_no_fuse(rstack, to, from) == Append(rstack, <<to, from>>)

\* C9 mutant: the top frame is always coalesced.
push_rstack_always_fuse(rstack, to, from) ==
    [rstack EXCEPT ![Len(rstack)] = <<rstack[Len(rstack)][1], from>>]

\* C14 mutant: a coalesced frame returns to the new target.
push_rstack_fuse_to_new(rstack, to, from) ==
    LET then == rstack[Len(rstack)]
    IN  IF then[2] = to
        THEN [rstack EXCEPT ![Len(rstack)] = <<to, from>>]
        ELSE Append(rstack, <<to, from>>)

push_rstack(rstack, to, from) ==
    LET then == rstack[Len(rstack)]
    IN  IF then[2] = to
        THEN [rstack EXCEPT ![Len(rstack)] = <<then[1], from>>]
        ELSE Append(rstack, <<to, from>>)

\* The debug_assert_ne! that ends push_rstack, evaluated on its result.
\* It fails too when there is no frame under the top one (len() - 2).
tco_assert(rstack) ==
    /\ Len(rstack) >= 2
    /\ rstack[Len(rstack) - 1][2] # rstack[Len(rstack)][1]

(***************************************************************************)
(* What one opcode does to the VM: the new VmState, run_vm's return value  *)
(* if the opcode returns, the panic it raises if any, whether every        *)
(* debug assertion it evaluated held, what it printed and whether it read  *)
(* standard input.                                                         *)
(***************************************************************************)
Outcome(vm, ret, panic, assert_ok, printed, read) ==
    [vm |-> vm, ret |-> ret, panic |-> panic, assert_ok |-> assert_ok,
     printed |-> printed, read |-> read]

Continue(vm) == Outcome(vm, None, "", TRUE, <<>>, FALSE)
Panic(vm, why) == Outcome(vm, None, why, TRUE, <<>>, FALSE)
Return(vm, v) == Outcome(vm, Some(v), "", TRUE, <<>>, FALSE)

Push(vm, vs) == [vm EXCEPT !.stack = @ \o vs]

(***************************************************************************)
(* lib.rs: invoke.  ch is what the standard input reader yields if the     *)
(* function is Read: None, or Some(code point).                            *)
(***************************************************************************)
\* lines 366-379: the pc after the dispatch.
\* C20 mutant: Reprint is missing from the arms that keep the pc.
invoke_advance_after_reprint(fun, vm) ==
    CASE fun[1] = "S2" -> vm
      [] fun[1] = "D1" -> vm
      [] fun[1] \in {"C", "Read"} -> vm
      [] OTHER -> [vm EXCEPT !.pc = @ + 1]

invoke_advance(fun, vm) ==
    CASE fun[1] = "S2" -> vm
      [] fun[1] = "D1" -> vm
      [] fun[1] \in {"C", "Read", "Reprint"} -> vm
      [] OTHER -> [vm EXCEPT !.pc = @ + 1]

\* C27 mutant: the promise of the operand is not pushed.
invoke_S2_without_promise(fun, arg, vm) ==
    LET val1 == fun[2]
        val2 == fun[3]
        pushed == Push(vm, <<val2, arg, val1, arg>>)
        rs == push_rstack(vm.rstack, vm.pc + 1, S2_END)
    IN  Outcome([pushed EXCEPT !.rstack = rs, !.pc = S2_START],
                None, "", tco_assert(rs), <<>>, FALSE)

invoke_S2(fun, arg, vm) ==
    LET val1 == fun[2]
        val2 == fun[3]
        pushed == Push(vm, <<val2, arg, D1(Application(val2, arg)), val1, arg>>)
        rs == push_rstack(vm.rstack, vm.pc + 1, S2_END)
    IN  Outcome([pushed EXCEPT !.rstack = rs, !.pc = S2_START],
                None, "", tco_assert(rs), <<>>, FALSE)

\* C4 mutant: the forced body returns past the Swap of the microcode.
invoke_D1_Promise_no_swap(c, at, arg, vm) ==
    IF at - 1 \in 0 .. Len(c) - 1 /\ Op(c, at - 1)[1] = "CheckSuspend"
    THEN LET offset == Op(c, at - 1)[2]
             rs1 == push_rstack(vm.rstack, vm.pc + 1, D1_PROMISE_END)
             rs2 == push_rstack(rs1, D1_PROMISE_START + 1, at - 2 + offset)
         IN  Outcome([Push(vm, <<arg>>) EXCEPT !.rstack = rs2, !.pc = at],
                     None, "", tco_assert(rs1) /\ tco_assert(rs2), <<>>, FALSE)
    ELSE Panic(vm, "promise does not point to a CheckSuspend opcode")

invoke_D1_Promise(c, at, arg, vm) ==
    IF at - 1 \in 0 .. Len(c) - 1 /\ Op(c, at - 1)[1] = "CheckSuspend"
    THEN LET offset == Op(c, at - 1)[2]
             rs1 == push_rstack(vm.rstack, vm.pc + 1, D1_PROMISE_END)
             rs2 == push_rstack(rs1, D1_PROMISE_START, at - 2 + offset)
         IN  Outcome([Push(vm, <<arg>>) EXCEPT !.rstack = rs2, !.pc = at],
                     None, "", tco_assert(rs1) /\ tco_assert(rs2), <<>>, FALSE)
    ELSE Panic(vm, "promise does not point to a CheckSuspend opcode")

\* C17 mutant: the argument is pushed above the operator and the operand.
invoke_D1_Application_arg_last(operator, operand, arg, vm) ==
    LET rs == push_rstack(vm.rstack, vm.pc + 1, D1_APPLICATION_END)
    IN  Outcome([Push(vm, <<operator, operand, arg>>)
                    EXCEPT !.rstack = rs, !.pc = D1_APPLICATION_START],
                None, "", tco_assert(rs), <<>>, FALSE)

invoke_D1_Application(operator, operand, arg, vm) ==
    LET rs == push_rstack(vm.rstack, vm.pc + 1, D1_APPLICATION_END)
    IN  Outcome([Push(vm, <<arg, operator, operand>>)
                    EXCEPT !.rstack = rs, !.pc = D1_APPLICATION_START],
                None, "", tco_assert(rs), <<>>, FALSE)

\* C7 mutant: D1(Function(f)) yields f without applying it.
invoke_D1_unapplied(c, fun, arg, vm) ==
    LET e == fun[2]
    IN  CASE e[1] = "Promise" -> invoke_D1_Promise(c, e[2], arg, vm)
          [] e[1] = "Function" -> Continue(Push(vm, <<e[2]>>))
          [] e[1] = "Application" -> invoke_D1_Application(e[2], e[3], arg, vm)

invoke_D1(c, fun, arg, vm) ==
    LET e == fun[2]
    IN  CASE e[1] = "Promise" -> invoke_D1_Promise(c, e[2], arg, vm)
          [] e[1] = "Function" -> Continue(Push(vm, <<e[2], arg>>))
          [] e[1] = "Application" -> invoke_D1_Application(e[2], e[3], arg, vm)

\* C11 mutant: the snapshot is taken before C's argument is popped.
invoke_C_snapshot_with_arg(arg, vm) ==
    LET saved_state == [vm EXCEPT !.stack = Append(@, arg)]
    IN  Continue(Push(vm, <<arg, C1(saved_state)>>))

invoke_C(arg, vm) ==
    LET saved_state == vm
    IN  Continue(Push(vm, <<arg, C1(saved_state)>>))

\* C5 mutant: the return stack of the snapshot is not restored.
invoke_C1_keep_rstack(cont, arg, vm) ==
    Continue([vm EXCEPT !.stack = Append(cont.stack, arg),
                        !.pc = cont.pc])

\* C25 mutant: the whole snapshot is restored, its cur_char included.
invoke_C1_restores_cur_char(cont, arg, vm) ==
    Continue([cont EXCEPT !.stack = Append(cont.stack, arg)])

invoke_C1(cont, arg, vm) ==
    Continue([vm EXCEPT !.stack = Append(cont.stack, arg),
                        !.rstack = cont.rstack,
                        !.pc = cont.pc])

\* C10 mutant: E behaves as I.
invoke_E_as_I(arg, vm) == Continue(Push(vm, <<arg>>))

invoke_E(arg, vm) == Return(vm, arg)

\* C21 mutant: at end of input the latched character is kept.
invoke_Read_keeps_latch(ch, arg, vm) ==
    Outcome([Push(vm, <<arg, IF ch # None THEN I ELSE V>>)
                EXCEPT !.cur_char = IF ch # None THEN ch ELSE @],
            None, "", TRUE, <<>>, TRUE)

invoke_Read(ch, arg, vm) ==
    Outcome([Push(vm, <<arg, IF ch # None THEN I ELSE V>>) EXCEPT !.cur_char = ch],
            None, "", TRUE, <<>>, TRUE)

\* C23 mutant: Reprint also echoes the latched character.
invoke_Reprint_echoes(arg, vm) ==
    IF vm.cur_char = None
    THEN Continue(Push(vm, <<arg, V>>))
    ELSE Outcome(Push(vm, <<arg, Dot(vm.cur_char[2])>>), None, "", TRUE,
                 <<vm.cur_char[2]>>, FALSE)

invoke_Reprint(arg, vm) ==
    LET fun == IF vm.cur_char = None THEN V ELSE Dot(vm.cur_char[2])
    IN  Continue(Push(vm, <<arg, fun>>))

\* C22 mutant: an absent current character compares as equal.
invoke_Compare_absent_matches(ch, arg, vm) ==
    LET is_same == IF vm.cur_char = None THEN TRUE ELSE vm.cur_char[2] = ch
    IN  Continue(Push(vm, <<arg, IF is_same THEN I ELSE V>>))

invoke_Compare(ch, arg, vm) ==
    LET is_same == IF vm.cur_char = None THEN FALSE ELSE vm.cur_char[2] = ch
    IN  Continue(Push(vm, <<arg, IF is_same THEN I ELSE V>>))

invoke_Dot(ch, arg, vm) ==
    Outcome(Push(vm, <<arg>>), None, "", TRUE, <<ch>>, FALSE)

\* lines 269-364: the dispatch on fun, after both operands were popped.
invoke_dispatch(c, fun, arg, vm, ch) ==
    CASE fun[1] = "I" -> Continue(Push(vm, <<arg>>))
      [] fun[1] = "K" -> Continue(Push(vm, <<K1(arg)>>))
      [] fun[1] = "K1" -> Continue(Push(vm, <<fun[2]>>))
      [] fun[1] = "S" -> Continue(Push(vm, <<S1(arg)>>))
      [] fun[1] = "S1" -> Continue(Push(vm, <<S2(fun[2], arg)>>))
      [] fun[1] = "S2" -> invoke_S2(fun, arg, vm)
      [] fun[1] = "V" -> Continue(Push(vm, <<fun>>))
      [] fun[1] = "D" -> Continue(Push(vm, <<D1(Function(arg))>>))
      [] fun[1] = "D1" -> invoke_D1(c, fun, arg, vm)
      [] fun[1] = "C" -> invoke_C(arg, vm)
      [] fun[1] = "C1" -> invoke_C1(fun[2], arg, vm)
      [] fun[1] = "E" -> invoke_E(arg, vm)
      [] fun[1] = "Read" -> invoke_Read(ch, arg, vm)
      [] fun[1] = "Reprint" -> invoke_Reprint(arg, vm)
      [] fun[1] = "Compare" -> invoke_Compare(fun[2], arg, vm)
      [] fun[1] = "Dot" -> invoke_Dot(fun[2], arg, vm)

\* D1(Function(f)) is the one D1 that keeps the pc at the same Invoke: like
\* the others of lines 368-375 it does not advance.
invoke(c, vm, ch) ==
    IF Len(vm.stack) < 2
    THEN Panic(vm, "unwrap")
    ELSE LET arg == vm.stack[Len(vm.stack)]
             fun == vm.stack[Len(vm.stack) - 1]
             popped == [vm EXCEPT !.stack = PopN(@, 2)]
             o == invoke_dispatch(c, fun, arg, popped, ch)
         IN  IF o.panic # "" \/ o.ret # None
             THEN o
             ELSE [o EXCEPT !.vm = invoke_advance(fun, o.vm)]

(***************************************************************************)
(* lib.rs: run_vm, the arms of its first match (lines 194-251).            *)
(***************************************************************************)
exec_PushImmediate(c, vm) == Continue(Push(vm, <<from_combinator(c)>>))

\* C6 mutant: [.., a, b, c] becomes [.., b, c, a].
exec_Rot_top_kept(vm) ==
    IF Len(vm.stack) < 3
    THEN Panic(vm, "unwrap")
    ELSE LET n == Len(vm.stack)
             fst == vm.stack[n]
             snd == vm.stack[n - 1]
             thr == vm.stack[n - 2]
         IN  Continue([vm EXCEPT !.stack = PopN(@, 3) \o <<snd, fst, thr>>])

exec_Rot(vm) ==
    IF Len(vm.stack) < 3
    THEN Panic(vm, "unwrap")
    ELSE LET n == Len(vm.stack)
             fst == vm.stack[n]
             snd == vm.stack[n - 1]
             thr == vm.stack[n - 2]
         IN  Continue([vm EXCEPT !.stack = PopN(@, 3) \o <<fst, thr, snd>>])

exec_Swap(vm) ==
    IF Len(vm.stack) < 2
    THEN Panic(vm, "unwrap")
    ELSE LET n == Len(vm.stack)
             fst == vm.stack[n]
             snd == vm.stack[n - 1]
         IN  Continue([vm EXCEPT !.stack = PopN(@, 2) \o <<fst, snd>>])

\* C3 mutant: the promise is made but the argument is not skipped.
exec_CheckSuspend_no_skip(offset, vm) ==
    IF Len(vm.stack) < 1
    THEN Panic(vm, "index")
    ELSE IF Top(vm.stack) = D
         THEN Continue([vm EXCEPT !.stack = Append(Pop(@), D1(Promise(vm.pc + 1))),
                                  !.pc = @ + 1])
         ELSE Continue([vm EXCEPT !.pc = @ + 1])

\* C8 mutant: the promise holds the address of the CheckSuspend itself.
exec_CheckSuspend_at_pc(offset, vm) ==
    IF Len(vm.stack) < 1
    THEN Panic(vm, "index")
    ELSE IF Top(vm.stack) = D
         THEN Continue([vm EXCEPT !.stack = Append(Pop(@), D1(Promise(vm.pc))),
                                  !.pc = @ + offset])
         ELSE Continue([vm EXCEPT !.pc = @ + 1])

exec_CheckSuspend(offset, vm) ==
    IF Len(vm.stack) < 1
    THEN Panic(vm, "index")
    ELSE IF Top(vm.stack) = D
         THEN Continue([vm EXCEPT !.stack = Append(Pop(@), D1(Promise(vm.pc + 1))),
                                  !.pc = @ + offset])
         ELSE Continue([vm EXCEPT !.pc = @ + 1])

\* C16 mutant: on D the promise is promoted but the rest of the microcode
\* is not skipped.
exec_CheckDynamicSuspend_no_jump(offset, vm) ==
    IF Len(vm.stack) < 1
    THEN Panic(vm, "unwrap")
    ELSE LET operator == Top(vm.stack)
         IN  IF operator = D
             THEN IF Len(vm.stack) < 4
                  THEN Panic(vm, "unwrap")
                  ELSE LET promise == vm.stack[Len(vm.stack) - 1]
                       IN  Continue([vm EXCEPT !.stack = Append(PopN(@, 4), promise),
                                               !.pc = @ + 1])
             ELSE IF Len(vm.stack) < 2
                  THEN Panic(vm, "unwrap")
                  ELSE Continue([vm EXCEPT !.stack = Append(PopN(@, 2), operator),
                                           !.pc = @ + 1])

exec_CheckDynamicSuspend(offset, vm) ==
    IF Len(vm.stack) < 1
    THEN Panic(vm, "unwrap")
    ELSE LET operator == Top(vm.stack)
         IN  IF operator = D
             THEN IF Len(vm.stack) < 4
                  THEN Panic(vm, "unwrap")
                  ELSE LET promise == vm.stack[Len(vm.stack) - 1]
                       IN  Continue([vm EXCEPT !.stack = Append(PopN(@, 4), promise),
                                               !.pc = @ + offset])
             ELSE IF Len(vm.stack) < 2
                  THEN Panic(vm, "unwrap")
                  ELSE Continue([vm EXCEPT !.stack = Append(PopN(@, 2), operator),
                                           !.pc = @ + 1])

\* The two debug assertions of the Finish arm.
finish_assert(c, vm) ==
    /\ Len(vm.stack) = 1
    /\ vm.rstack = <<<<Len(c), Len(c)>>>>

exec_Finish(c, vm) ==
    IF Len(vm.stack) < 1
    THEN Outcome(vm, None, "unwrap", finish_assert(c, vm), <<>>, FALSE)
    ELSE Outcome([vm EXCEPT !.stack = Pop(@)], Some(Top(vm.stack)), "",
                 finish_assert(c, vm), <<>>, FALSE)

\* lines 252-255: opcodes that do not set the pc themselves advance it.
advance(opcode, vm) ==
    IF opcode[1] \in {"Invoke", "CheckSuspend", "CheckDynamicSuspend"}
    THEN vm
    ELSE [vm EXCEPT !.pc = @ + 1]

\* lines 258-263: the auto-return check, once per iteration.
auto_return(vm) ==
    LET frame == vm.rstack[Len(vm.rstack)]
        to == frame[1]
        from == frame[2]
    IN  IF vm.pc = from
        THEN [vm EXCEPT !.pc = to, !.rstack = Pop(@)]
        ELSE vm

(***************************************************************************)
(* parse.rs: parse and parse_toplevel over a sequence of characters.       *)
(* A result is <<"Ok", tree, rest>> or <<"Err">>.                          *)
(***************************************************************************)
\* The backtick character (a string literal cannot hold one).
B == "backtick"

to_ascii_lowercase(ch) ==
    CASE ch = "K" -> "k" [] ch = "S" -> "s" [] ch = "I" -> "i"
      [] ch = "V" -> "v" [] ch = "D" -> "d" [] ch = "C" -> "c"
      [] ch = "E" -> "e" [] ch = "R" -> "r" [] OTHER -> ch

is_whitespace(ch) == ch \in {" ", Newline}

RECURSIVE read_to_newline(_)
read_to_newline(chars) ==
    IF chars = <<>> THEN chars
    ELSE IF Head(chars) = Newline THEN Tail(chars)
    ELSE read_to_newline(Tail(chars))

RECURSIVE consume_whitespace(_)
consume_whitespace(chars) ==
    IF chars = <<>> THEN chars
    ELSE IF Head(chars) = "#" THEN consume_whitespace(read_to_newline(chars))
    ELSE IF is_whitespace(Head(chars)) THEN consume_whitespace(Tail(chars))
    ELSE chars

RECURSIVE parse(_)
parse(iterator) ==
    LET chars == consume_whitespace(iterator)
    IN  IF chars = <<>> THEN <<"Err">>
        ELSE LET token == to_ascii_lowercase(Head(chars))
                 rest == Tail(chars)
             IN  CASE token = "k" -> <<"Ok", Leaf(<<"K">>), rest>>
                   [] token = "s" -> <<"Ok", Leaf(<<"S">>), rest>>
                   [] token = "i" -> <<"Ok", Leaf(<<"I">>), rest>>
                   [] token = "v" -> <<"Ok", Leaf(<<"V">>), rest>>
                   [] token = "d" -> <<"Ok", Leaf(<<"D">>), rest>>
                   [] token = "c" -> <<"Ok", Leaf(<<"C">>), rest>>
                   [] token = "e" -> <<"Ok", Leaf(<<"E">>), rest>>
                   [] token = "@" -> <<"Ok", Leaf(<<"Read">>), rest>>
                   [] token = "|" -> <<"Ok", Leaf(<<"Reprint">>), rest>>
                   [] token = "?" ->
                        IF rest = <<>> THEN <<"Err">>
                        ELSE <<"Ok", Leaf(<<"Compare", Head(rest)>>), Tail(rest)>>
                   [] token = "." ->
                        IF rest = <<>> THEN <<"Err">>
                        ELSE <<"Ok", Leaf(<<"Dot", Head(rest)>>), Tail(rest)>>
                   [] token = "r" -> <<"Ok", Leaf(<<"Dot", Newline>>), rest>>
                   [] token \in {"[", B} ->
                        LET func == parse(rest)
                        IN  IF func[1] = "Err" THEN func
                            ELSE LET arg == parse(func[3])
                                 IN  IF arg[1] = "Err" THEN arg
                                     ELSE <<"Ok", App(func[2], arg[2]), arg[3]>>
                   [] OTHER -> <<"Err">>

parse_toplevel(iterator) ==
    LET res == parse(iterator)
    IN  IF res[1] = "Err" THEN res
        ELSE IF consume_whitespace(res[3]) # <<>> THEN <<"Err">>
        ELSE <<"Ok", res[2], <<>>>>

(***************************************************************************)
(* The programs run: the sources of tests/integ_tests.rs, further sources  *)
(* that force promises, apply continuations, exit and do I/O inside        *)
(* microcode, and every syntax tree of at most MaxLeaves combinators.      *)
(***************************************************************************)
TestSources ==
    { <<B, B, B, "s", "k", "s", "s">>,
      <<B, "i", "i">>,
      <<B, B, "k", "s", "i">>,
      <<B, "d", B, "i", "r">>,
      <<B, B, "d", B, "i", "r", "i">>,
      <<B, B, "d", B, B, B, "s", "k", "s", "s", "i">>,
      <<B, B, "c", "i", "i">>,
      <<B, B, "c", "i", "r">>,
      <<B, "c", B, B, "s", B, "k", "r", B, B, "s", "i", B, "k", "i">>,
      <<B, B, B, "s", "d", "d", "k">>,
      <<B, B, B, B, B, "s", B, "k", "c", B, B, "s", B, "k", B, "s", B, "k", B, "k", B, "k", "i", B, B, "s", "s", B, "k", B, "k", "k", "i", "k", "s">>,
      <<B, B, B, B, B, "s", B, "k", "c", B, B, "s", B, "k", B, "s", B, "k", B, "k", B, "k", "i", B, B, "s", "s", B, "k", B, "k", "k", "v", "k", "s">> }

MoreSources ==
    { <<B, B, "i", "d", B, "r", "i">>,
      <<B, B, "d", B, "d", "i", "i">>,
      <<B, B, B, B, "s", "i", "i", B, "d", B, "r", "i", "i">>,
      <<B, B, B, B, B, "s", "d", "d", "k", "i", "i">>,
      <<B, B, "d", B, "e", "i", "i">>,
      <<B, B, B, "s", "e", "i", "i">>,
      <<B, B, B, "s", B, "k", "d", "r", "i">>,
      <<B, B, B, B, "s", B, "k", "d", "r", "i", "i">>,
      <<B, B, B, B, "s", B, "k", "d", "r", "i", "k">>,
      <<B, B, B, "s", "?", "a", "i", "i">>,
      <<B, B, B, "s", "i", "i", B, B, "s", "i", "i">>,
      <<B, B, "d", "i", B, "c", "i">>,
      <<B, B, "d", B, "c", "i", "i">>,
      <<B, B, B, "s", "i", "i", B, "c", "i">>,
      <<B, B, B, "s", B, B, "s", B, "k", "s", "k", B, "k", "i", "k">>,
      <<B, B, B, "s", B, "s", "k", B, B, "s", "i", "i", "v">>,
      <<B, ".", "b", B, ".", "a", "i">>,
      <<B, B, ".", "a", ".", "b", "i">>,
      <<"[", "K", " ", "#", "c", Newline, ".", "a">> }

Sources == TestSources \cup MoreSources

Parsed == {parse_toplevel(src) : src \in Sources}

Corpus == {res[2] : res \in {r \in Parsed : r[1] = "Ok"}}

\* The shapes of the syntax trees with n leaves, and the tree of a shape
\* whose leaves, left to right, are the combinators cs.
Shapes1 == {<<"L">>}

RECURSIVE Shapes(_)
Shapes(n) ==
    IF n = 1
    THEN Shapes1
    ELSE UNION {{<<"A", l, r>> : l \in Shapes(k), r \in Shapes(n - k)} : k \in 1 .. n - 1}

RECURSIVE Leaves(_)
Leaves(shape) ==
    IF shape[1] = "L" THEN 1 ELSE Leaves(shape[2]) + Leaves(shape[3])

RECURSIVE Tree(_, _)
Tree(shape, cs) ==
    IF shape[1] = "L"
    THEN Leaf(cs[1])
    ELSE LET n == Leaves(shape[2])
         IN  App(Tree(shape[2], SubSeq(cs, 1, n)),
                 Tree(shape[3], SubSeq(cs, n + 1, Len(cs))))

IsProgram(st) ==
    \/ st \in Corpus
    \/ \E n \in 1 .. MaxLeaves :
         \E shape \in Shapes(n), cs \in [1 .. n -> Combinator] :
           st = Tree(shape, cs)

(***************************************************************************)
(* The state after construction: parse_compile_run has compiled the        *)
(* program and run_vm has pushed the sentinel frame.                       *)
(***************************************************************************)
initial_state(c, entry_point) ==
    VmState(<<>>, <<<<Len(c), Len(c)>>>>, entry_point, None)

History(pre, o) ==
    [pre |-> pre, mid |-> o.vm, printed |-> o.printed, panic |-> o.panic,
     assert_ok |-> o.assert_ok]

Init ==
    /\ IsProgram(program)
    /\ code = compile_toplevel(program).code
    /\ vm_state = initial_state(code, compile_toplevel(program).entry_point)
    /\ consumed = 0
    /\ eof = FALSE
    /\ output = <<>>
    /\ status = "running"
    /\ result = None
    /\ steps = 0
    /\ last = History(vm_state, Continue(vm_state))

(***************************************************************************)
(* One iteration of run_vm's loop: the opcode's arm, the pc advance and    *)
(* the auto-return check.  A failed debug assertion panics in a debug      *)
(* build and is not evaluated in a release build.                          *)
(***************************************************************************)
Fetch == Op(code, vm_state.pc)

Running ==
    /\ status = "running"
    /\ steps < MaxSteps
    /\ vm_state.pc \in 0 .. Len(code) - 1

LoopIteration(o) ==
    /\ steps' = steps + 1
    /\ output' = output \o o.printed
    /\ UNCHANGED <<program, code>>
    /\ \E debug_build \in (IF o.assert_ok THEN {FALSE} ELSE BOOLEAN) :
         IF o.panic # "" \/ debug_build
         THEN /\ status' = "panic"
              /\ result' = None
              /\ vm_state' = o.vm
              /\ last' = History(vm_state, o)
         ELSE IF o.ret # None
         THEN /\ status' = IF Fetch = Finish THEN "finished" ELSE "exited"
              /\ result' = o.ret[2]
              /\ vm_state' = o.vm
              /\ last' = History(vm_state, o)
         ELSE LET mid == advance(Fetch, o.vm)
              IN  /\ status' = "running"
                  /\ result' = None
                  /\ vm_state' = auto_return(mid)
                  /\ last' = History(vm_state, [o EXCEPT !.vm = mid])

DoPushImmediate ==
    /\ Running
    /\ Fetch[1] = "PushImmediate"
    /\ LoopIteration(exec_PushImmediate(Fetch[2], vm_state))
    /\ UNCHANGED <<consumed, eof>>

DoRot ==
    /\ Running
    /\ Fetch = Rot
    /\ LoopIteration(exec_Rot(vm_state))
    /\ UNCHANGED <<consumed, eof>>

DoSwap ==
    /\ Running
    /\ Fetch = Swap
    /\ LoopIteration(exec_Swap(vm_state))
    /\ UNCHANGED <<consumed, eof>>

DoCheckSuspend ==
    /\ Running
    /\ Fetch[1] = "CheckSuspend"
    /\ LoopIteration(exec_CheckSuspend(Fetch[2], vm_state))
    /\ UNCHANGED <<consumed, eof>>

DoCheckDynamicSuspend ==
    /\ Running
    /\ Fetch[1] = "CheckDynamicSuspend"
    /\ LoopIteration(exec_CheckDynamicSuspend(Fetch[2], vm_state))
    /\ UNCHANGED <<consumed, eof>>

\* What the standard input reader can yield now.
ReadChoices ==
    IF eof \/ consumed >= MaxInput
    THEN {None}
    ELSE {None} \cup {Some(ch) : ch \in Chars}

AppliesRead ==
    /\ Len(vm_state.stack) >= 2
    /\ vm_state.stack[Len(vm_state.stack) - 1] = <<"Read">>

\* C13 mutant: the Invoke arm takes the next character of standard input
\* into cur_char before it dispatches.
DoInvoke_eager_read ==
    /\ Running
    /\ Fetch = Invoke
    /\ \E ch \in ReadChoices :
         LET o == invoke(code, [vm_state EXCEPT !.cur_char = ch], ch)
         IN  /\ LoopIteration(o)
             /\ consumed' = IF ch # None THEN consumed + 1 ELSE consumed
             /\ eof' = (eof \/ ch = None)

DoInvoke ==
    /\ Running
    /\ Fetch = Invoke
    /\ \E ch \in (IF AppliesRead THEN ReadChoices ELSE {None}) :
         LET o == invoke(code, vm_state, ch)
         IN  /\ LoopIteration(o)
             /\ consumed' = IF o.read /\ ch # None THEN consumed + 1 ELSE consumed
             /\ eof' = (eof \/ (o.read /\ ch = None))

DoFinish ==
    /\ Running
    /\ Fetch = Finish
    /\ LoopIteration(exec_Finish(code, vm_state))
    /\ UNCHANGED <<consumed, eof>>

Next ==
    \/ DoPushImmediate
    \/ DoRot
    \/ DoSwap
    \/ DoCheckSuspend
    \/ DoCheckDynamicSuspend
    \/ DoInvoke
    \/ DoFinish

Spec == Init /\ [][Next]_vars

(***************************************************************************)
(* Vocabulary of the properties: the iteration that led to this state.     *)
(***************************************************************************)
Stepped == steps > 0
Sentinel == <<Len(code), Len(code)>>
LastPc == last.pre.pc
LastOp == Op(code, last.pre.pc)
LastFun == last.pre.stack[Len(last.pre.stack) - 1]
LastArg == last.pre.stack[Len(last.pre.stack)]
\* The operand stack under the two operands of the last Invoke.
LastSigma == PopN(last.pre.stack, 2)

LastInvoke(tag) ==
    /\ Stepped
    /\ LastOp = Invoke
    /\ Len(last.pre.stack) >= 2
    /\ LastFun[1] = tag

LastInvokeD1(kind) == LastInvoke("D1") /\ LastFun[2][1] = kind

(***************************************************************************)
(* C1. Finish cleanliness: whenever run_vm executes the Finish opcode the  *)
(* operand stack holds exactly one value and the return stack is exactly   *)
(* the sentinel frame (len(code), len(code)).                              *)
(***************************************************************************)
C1_FinishCleanliness ==
    (Stepped /\ LastOp = Finish) =>
        /\ Len(last.pre.stack) = 1
        /\ last.pre.rstack = <<Sentinel>>

(***************************************************************************)
(* C2. TCO invariant: in every reachable VM state, before and after the    *)
(* auto-return check, adjacent return-stack frames satisfy                 *)
(* lower.from # upper.to; the debug assertion of push_rstack holds after   *)
(* every call and finds a frame below the top one.                         *)
(***************************************************************************)
Adjacent(rstack) ==
    \A i \in 1 .. Len(rstack) - 1 : rstack[i][2] # rstack[i + 1][1]

C2_TCOInvariant ==
    /\ Adjacent(vm_state.rstack)
    /\ Adjacent(last.mid.rstack)
    /\ (Stepped /\ LastOp = Invoke) => last.assert_ok

\* An Invoke of the S2 microcode's last instruction has coalesced its frame
\* into the one already on the return stack.
C2_Witness ==
    /\ LastInvoke("S2")
    /\ LastPc = S2_END - 1
    /\ Len(last.mid.rstack) = Len(last.pre.rstack)
    /\ Len(last.mid.rstack) = 2
    /\ last.assert_ok

(***************************************************************************)
(* C3. D delays its argument: when the CheckSuspend at index P with offset *)
(* off of an application node executes with the D primitive on top of the  *)
(* operand stack, D is replaced by D1(Promise(P + 1)) and the opcode sets  *)
(* pc to P + off, the index after the node's Invoke; nothing is printed    *)
(* and the next opcode executed is outside the argument's code and is not  *)
(* the node's Invoke.  Otherwise the stack is unchanged and pc becomes     *)
(* P + 1.  The source `d`ir finishes with a D1 value and prints nothing.   *)
(***************************************************************************)
Src_d_ir == <<B, "d", B, "i", "r">>
Tree_d_ir == parse_toplevel(Src_d_ir)[2]

C3_DelaysArgument ==
    /\ (Stepped /\ LastOp[1] = "CheckSuspend") =>
         LET P == LastPc
             off == LastOp[2]
         IN  /\ last.panic = ""
             /\ Op(code, P + off - 1) = Invoke
             /\ last.printed = <<>>
             /\ last.mid.rstack = last.pre.rstack
             /\ last.mid.cur_char = last.pre.cur_char
             /\ IF Top(last.pre.stack) = D
                THEN /\ last.mid.stack = Append(Pop(last.pre.stack), D1(Promise(P + 1)))
                     /\ last.mid.pc = P + off
                     /\ vm_state.pc \notin P + 1 .. P + off - 1
                ELSE /\ last.mid.stack = last.pre.stack
                     /\ last.mid.pc = P + 1
                     /\ vm_state = last.mid
    /\ program = Tree_d_ir =>
         /\ status \in {"running", "finished"}
         /\ output = <<>>
         /\ steps >= 3 => (status = "finished" /\ result = D1(Promise(12)))

\* The function position held an application that reduced to D at run
\* time, and its CheckSuspend made the promise and skipped the argument.
C3_Witness ==
    /\ Stepped
    /\ LastOp[1] = "CheckSuspend"
    /\ Op(code, LastPc - 1) = Invoke
    /\ Top(last.pre.stack) = D
    /\ Top(vm_state.stack) = D1(Promise(LastPc + 1))
    /\ last.mid.pc = LastPc + LastOp[2]
    /\ LastOp[2] > 3

(***************************************************************************)
(* The reference semantics of the c-free, input-free fragment (i k s v d e *)
(* .x): eager evaluation, function before argument, of the syntax tree.    *)
(* A promise holds the code address of the delayed argument; a result is   *)
(* a value with the output produced, an exit through e, or "div" when the  *)
(* evaluation is deeper than the fuel.                                     *)
(***************************************************************************)
RefFuel == 30

RECURSIVE CodeLen(_)
CodeLen(st) ==
    IF IsApplication(st) THEN CodeLen(st[2]) + CodeLen(st[3]) + 2 ELSE 1

\* The argument subtree whose code starts at address at, in the tree st
\* whose code starts at address start.
RECURSIVE ArgAt(_, _, _)
ArgAt(st, start, at) ==
    LET P == start + CodeLen(st[2])
    IN  IF at = P + 1 THEN st[3]
        ELSE IF at <= P THEN ArgAt(st[2], start, at)
        ELSE ArgAt(st[3], P + 1, at)

RefVal(v, out) == [kind |-> "val", val |-> v, out |-> out]
RefExit(v, out) == [kind |-> "exit", val |-> v, out |-> out]
RefDiv == [kind |-> "div", val |-> None, out |-> <<>>]
After(out, r) == [r EXCEPT !.out = out \o @]

RECURSIVE RefEval(_, _, _), RefApply(_, _, _)
RefEval(st, start, fuel) ==
    IF fuel = 0 THEN RefDiv
    ELSE IF ~IsApplication(st) THEN RefVal(st[2], <<>>)
    ELSE LET f == RefEval(st[2], start, fuel - 1)
             P == start + CodeLen(st[2])
         IN  IF f.kind # "val" THEN f
             ELSE IF f.val = D THEN RefVal(D1(Promise(P + 1)), f.out)
             ELSE LET a == RefEval(st[3], P + 1, fuel - 1)
                  IN  IF a.kind # "val" THEN After(f.out, a)
                      ELSE After(f.out \o a.out, RefApply(f.val, a.val, fuel - 1))

RefApply(f, x, fuel) ==
    IF fuel = 0 THEN RefDiv
    ELSE CASE f[1] = "I" -> RefVal(x, <<>>)
           [] f[1] = "K" -> RefVal(K1(x), <<>>)
           [] f[1] = "K1" -> RefVal(f[2], <<>>)
           [] f[1] = "S" -> RefVal(S1(x), <<>>)
           [] f[1] = "S1" -> RefVal(S2(f[2], x), <<>>)
           [] f[1] = "S2" ->
                LET r1 == RefApply(f[2], x, fuel - 1)
                IN  IF r1.kind # "val" THEN r1
                    ELSE IF r1.val = D
                    THEN RefVal(D1(Application(f[3], x)), r1.out)
                    ELSE LET r2 == RefApply(f[3], x, fuel - 1)
                         IN  IF r2.kind # "val" THEN After(r1.out, r2)
                             ELSE After(r1.out \o r2.out,
                                        RefApply(r1.val, r2.val, fuel - 1))
           [] f[1] = "V" -> RefVal(V, <<>>)
           [] f[1] = "D" -> RefVal(D1(Function(x)), <<>>)
           [] f[1] = "D1" /\ f[2][1] = "Promise" ->
                LET v == RefEval(ArgAt(program, D1_APPLICATION_END, f[2][2]),
                                 f[2][2], fuel - 1)
                IN  IF v.kind # "val" THEN v
                    ELSE After(v.out, RefApply(v.val, x, fuel - 1))
           [] f[1] = "D1" /\ f[2][1] = "Function" -> RefApply(f[2][2], x, fuel - 1)
           [] f[1] = "D1" /\ f[2][1] = "Application" ->
                LET r == RefApply(f[2][2], f[2][3], fuel - 1)
                IN  IF r.kind # "val" THEN r
                    ELSE After(r.out, RefApply(r.val, x, fuel - 1))
           [] f[1] = "E" -> RefExit(x, <<>>)
           [] f[1] = "Dot" -> RefVal(x, <<f[2]>>)

RECURSIVE LeavesIn(_, _)
LeavesIn(st, tags) ==
    IF IsApplication(st)
    THEN LeavesIn(st[2], tags) /\ LeavesIn(st[3], tags)
    ELSE st[2][1] \in tags

RECURSIVE HasLeaf(_, _)
HasLeaf(st, tag) ==
    IF IsApplication(st)
    THEN HasLeaf(st[2], tag) \/ HasLeaf(st[3], tag)
    ELSE st[2][1] = tag

Reference == RefEval(program, D1_APPLICATION_END, RefFuel)

\* The run ended as the reference semantics says; a run cut off by
\* MaxSteps is one the reference semantics does not finish either.
AgreesWithReference ==
    /\ status # "panic"
    /\ status = "finished" =>
         (Reference.kind = "val" /\ result = Reference.val /\ output = Reference.out)
    /\ status = "exited" =>
         (Reference.kind = "exit" /\ result = Reference.val /\ output = Reference.out)
    /\ (status = "running" /\ steps = MaxSteps) => Reference.kind = "div"

(***************************************************************************)
(* C4. Forcing a promise: an Invoke at q that applies D1(Promise(at)) to   *)
(* arg pushes arg, pushes the frame that leaves the D1-promise microcode   *)
(* for q + 1 (coalesced or not) and the frame (5, X) with X = at - 2 + off *)
(* the index of the creating application's Invoke, and jumps to at; the    *)
(* body's value v is then applied to arg by [Swap, Invoke] and the program *)
(* goes on as if the Invoke at q had produced (v arg): every program of    *)
(* the fragment i k s v d e .x that has a d ends with the value and the    *)
(* output of the reference semantics, which evaluates the body anew on     *)
(* every application.  ``d`iri yields I and ``d```skssi yields S1(I).      *)
(***************************************************************************)
Src_d_iri == <<B, B, "d", B, "i", "r", "i">>
Tree_d_iri == parse_toplevel(Src_d_iri)[2]
Src_d_skssi == <<B, B, "d", B, B, B, "s", "k", "s", "s", "i">>
Tree_d_skssi == parse_toplevel(Src_d_skssi)[2]
Src_twice == <<B, B, B, B, "s", "i", "i", B, "d", B, "r", "i", "i">>
Tree_twice == parse_toplevel(Src_twice)[2]

Src_cii == <<B, B, "c", "i", "i">>
Tree_cii == parse_toplevel(Src_cii)[2]
Src_cir == <<B, B, "c", "i", "r">>
Tree_cir == parse_toplevel(Src_cir)[2]
Src_c_escape ==
    <<B, "c", B, B, "s", B, "k", "r", B, B, "s", "i", B, "k", "i">>
Tree_c_escape == parse_toplevel(Src_c_escape)[2]
Src_sii_ci == <<B, B, B, "s", "i", "i", B, "c", "i">>
Tree_sii_ci == parse_toplevel(Src_sii_ci)[2]

C5_Continuation ==
    /\ LastInvoke("C") =>
         LET snapshot == VmState(LastSigma, last.pre.rstack, LastPc, last.pre.cur_char)
         IN  /\ last.mid = [last.pre EXCEPT !.stack = LastSigma \o <<LastArg, C1(snapshot)>>]
             /\ vm_state = last.mid
             /\ status = "running"
             /\ last.printed = <<>>
    /\ LastInvoke("C1") =>
         LET snapshot == LastFun[2]
         IN  /\ Op(code, snapshot.pc) = Invoke
             /\ last.mid.stack = Append(snapshot.stack, LastArg)
             /\ last.mid.rstack = snapshot.rstack
             /\ last.mid.pc = snapshot.pc + 1
             /\ vm_state = auto_return(last.mid)
             /\ status = "running"
             /\ last.printed = <<>>
    /\ (program = Tree_cii /\ status # "running") =>
         (status = "finished" /\ result = I /\ output = <<>>)
    /\ (program = Tree_cir /\ status # "running") =>
         (status = "finished" /\ result = Dot(Newline))
    /\ program = Tree_c_escape =>
         /\ output = <<>>
         /\ status # "running" => (status = "finished" /\ result = I)

\* The same continuation is applied again, to itself, after it has already
\* been applied: the capture site returns once more.
C5_Witness ==
    /\ program = Tree_sii_ci
    /\ LastInvoke("C1")
    /\ LastArg = LastFun
    /\ steps > 40
    /\ vm_state.stack = Append(LastFun[2].stack, LastArg)
    /\ last.pre.rstack # vm_state.rstack

(***************************************************************************)
(* C6. S/K/I/V reduction: for every program built only from i, k, s, v     *)
(* whose eager, function-before-argument reduction by the rules            *)
(* I x = x, K x = K1(x), K1(a) x = a, S x = S1(x), S1(a) x = S2(a, x),     *)
(* S2(a, b) x = (a x)(b x), V x = V terminates, the run reaches Finish     *)
(* and returns the value of that reduction.  ```skss yields S, `ii yields  *)
(* I, ``ksi yields S.                                                      *)
(***************************************************************************)
RECURSIVE Reduce(_, _), ReduceApply(_, _, _)
\* None stands for a reduction deeper than the fuel.
Reduce(st, fuel) ==
    IF fuel = 0 THEN None
    ELSE IF ~IsApplication(st) THEN st[2]
    ELSE LET f == Reduce(st[2], fuel - 1)
             a == Reduce(st[3], fuel - 1)
         IN  IF f = None \/ a = None THEN None ELSE ReduceApply(f, a, fuel - 1)

ReduceApply(f, x, fuel) ==
    IF fuel = 0 THEN None
    ELSE CASE f[1] = "I" -> x
           [] f[1] = "K" -> <<"K1", x>>
           [] f[1] = "K1" -> f[2]
           [] f[1] = "S" -> <<"S1", x>>
           [] f[1] = "S1" -> <<"S2", f[2], x>>
           [] f[1] = "S2" ->
                LET ax == ReduceApply(f[2], x, fuel - 1)
                    bx == ReduceApply(f[3], x, fuel - 1)
                IN  IF ax = None \/ bx = None THEN None
                    ELSE ReduceApply(ax, bx, fuel - 1)
           [] f[1] = "V" -> <<"V">>

Src_skss == <<B, B, B, "s", "k", "s", "s">>
Tree_skss == parse_toplevel(Src_skss)[2]
Src_ii == <<B, "i", "i">>
Tree_ii == parse_toplevel(Src_ii)[2]
Src_ksi == <<B, B, "k", "s", "i">>
Tree_ksi == parse_toplevel(Src_ksi)[2]

C6_SKIVReduction ==
    /\ (LeavesIn(program, {"I", "K", "S", "V"}) /\ Reduce(program, RefFuel) # None) =>
         /\ status \in {"running", "finished"}
         /\ status = "running" => steps < MaxSteps
         /\ status = "finished" => (result = Reduce(program, RefFuel) /\ output = <<>>)
    /\ (program = Tree_skss /\ status = "finished") => result = S
    /\ (program = Tree_ii /\ status = "finished") => result = I
    /\ (program = Tree_ksi /\ status = "finished") => result = S

\* A program of s, k, i, v that went through the S2 microcode many times
\* has finished with the value of its reduction.
C6_Witness ==
    /\ LeavesIn(program, {"I", "K", "S", "V"})
    /\ status = "finished"
    /\ steps > 30
    /\ Reduce(program, RefFuel) # None
    /\ result = Reduce(program, RefFuel)

(***************************************************************************)
(* C7. D applied at run time: an Invoke that applies the D primitive to a  *)
(* value x leaves D1(Function(x)) and advances; an Invoke that applies     *)
(* D1(Function(f)) to arg leaves the VM as it was before that Invoke with  *)
(* f in the place of the D1, at the same pc and with the same return       *)
(* stack, so the Invoke runs again on (f, arg).  ```sddk yields            *)
(* K1(D1(Function(K))), and applying that twice to i yields K1(I).         *)
(***************************************************************************)
Src_sddk == <<B, B, B, "s", "d", "d", "k">>
Tree_sddk == parse_toplevel(Src_sddk)[2]
Src_sddkii == <<B, B, B, B, B, "s", "d", "d", "k", "i", "i">>
Tree_sddkii == parse_toplevel(Src_sddkii)[2]

C7_RuntimeD ==
    /\ LastInvoke("D") =>
         /\ last.mid = [last.pre EXCEPT !.stack = Append(LastSigma, D1(Function(LastArg))),
                                        !.pc = @ + 1]
         /\ last.printed = <<>>
         /\ status = "running"
    /\ LastInvokeD1("Function") =>
         /\ vm_state = [last.pre EXCEPT !.stack = LastSigma \o <<LastFun[2][2], LastArg>>]
         /\ last.printed = <<>>
         /\ status = "running"
    /\ (program = Tree_sddk /\ status # "running") =>
         (status = "finished" /\ result = K1(D1(Function(K))) /\ output = <<>>)
    /\ (program = Tree_sddkii /\ status # "running") =>
         (status = "finished" /\ result = K1(I))

\* D1(Function(K)), made by an Invoke of the S2 microcode, has been applied
\* and the program has finished with K1(I).
C7_Witness ==
    /\ program = Tree_sddkii
    /\ status = "finished"
    /\ result = K1(I)

(***************************************************************************)
(* C8. Promise address invariant: every D1(Promise(at)) value of a         *)
(* reachable state, on the operand stack, inside K1/S1/S2/D1 values, inside*)
(* a continuation snapshot or returned as the result, has a CheckSuspend   *)
(* at code[at - 1]; invoke never panics on a promise address.              *)
(***************************************************************************)
PromiseAddressOk(at) ==
    /\ at - 1 \in 0 .. Len(code) - 1
    /\ Op(code, at - 1)[1] = "CheckSuspend"

RECURSIVE PromisesOk(_)
PromisesOk(v) ==
    CASE v[1] \in {"K1", "S1"} -> PromisesOk(v[2])
      [] v[1] = "S2" -> PromisesOk(v[2]) /\ PromisesOk(v[3])
      [] v[1] = "D1" ->
           (CASE v[2][1] = "Promise" -> PromiseAddressOk(v[2][2])
              [] v[2][1] = "Function" -> PromisesOk(v[2][2])
              [] v[2][1] = "Application" -> PromisesOk(v[2][2]) /\ PromisesOk(v[2][3]))
      [] v[1] = "C1" -> \A i \in 1 .. Len(v[2].stack) : PromisesOk(v[2].stack[i])
      [] OTHER -> TRUE

C8_PromiseAddress ==
    /\ \A i \in 1 .. Len(vm_state.stack) : PromisesOk(vm_state.stack[i])
    /\ \A i \in 1 .. Len(last.mid.stack) : PromisesOk(last.mid.stack[i])
    /\ result # None => PromisesOk(result)
    /\ last.panic # "promise does not point to a CheckSuspend opcode"

\* A promise has been forced while another promise sat in a continuation
\* snapshot on the operand stack.
C8_Witness ==
    /\ LastInvokeD1("Promise")
    /\ status = "running"
    /\ \E i \in 1 .. Len(vm_state.stack) :
         /\ vm_state.stack[i][1] = "C1"
         /\ \E j \in 1 .. Len(vm_state.stack[i][2].stack) :
              vm_state.stack[i][2].stack[j][1] = "D1"

(***************************************************************************)
(* C9. Sentinel discipline: in every reachable state, before and after the *)
(* auto-return check and after a continuation is restored, the return      *)
(* stack is non-empty, its bottom frame is (len(code), len(code)) and the  *)
(* pc is not len(code).                                                    *)
(***************************************************************************)
SentinelOk(vm) ==
    /\ Len(vm.rstack) >= 1
    /\ vm.rstack[1] = Sentinel
    /\ vm.pc # Len(code)

C9_Sentinel ==
    /\ SentinelOk(vm_state)
    /\ SentinelOk(last.mid)

\* A continuation captured under pending frames has been restored.
C9_Witness ==
    /\ LastInvoke("C1")
    /\ status = "running"
    /\ Len(vm_state.rstack) >= 2

(***************************************************************************)
(* C10. E terminates immediately: an Invoke that applies E to arg makes    *)
(* run_vm return arg in that step, whatever the stacks hold; it prints     *)
(* nothing and no further opcode is executed.                              *)
(***************************************************************************)
C10_ExitImmediately ==
    /\ LastInvoke("E") =>
         /\ status = "exited"
         /\ result = LastArg
         /\ last.printed = <<>>
    /\ status = "exited" => (LastInvoke("E") /\ ~ENABLED Next)

\* E was applied inside a forced promise, under two pending frames and
\* with an operand left on the stack.
C10_Witness ==
    /\ LastInvoke("E")
    /\ status = "exited"
    /\ Len(last.pre.rstack) >= 3
    /\ Len(LastSigma) >= 1

(***************************************************************************)
(* C11. call/cc discriminates I from V: the program                        *)
(* `````s`kc``s`k`s`k`k`ki``ss`k`kkBks terminates at Finish, with result K *)
(* when B is i and with result S when B is v.                              *)
(***************************************************************************)
Src_iv_i ==
    <<B, B, B, B, B, "s", B, "k", "c", B, B, "s", B, "k", B, "s", B, "k",
      B, "k", B, "k", "i", B, B, "s", "s", B, "k", B, "k", "k", "i", "k", "s">>
Tree_iv_i == parse_toplevel(Src_iv_i)[2]
Src_iv_v ==
    <<B, B, B, B, B, "s", B, "k", "c", B, B, "s", B, "k", B, "s", B, "k",
      B, "k", B, "k", "i", B, B, "s", "s", B, "k", B, "k", "k", "v", "k", "s">>
Tree_iv_v == parse_toplevel(Src_iv_v)[2]

C11_IVBoolean ==
    /\ program = Tree_iv_i =>
         /\ status \in {"running", "finished"}
         /\ status = "running" => steps < MaxSteps
         /\ status = "finished" => result = K
    /\ program = Tree_iv_v =>
         /\ status \in {"running", "finished"}
         /\ status = "running" => steps < MaxSteps
         /\ status = "finished" => result = S

\* The B = i program, which applies its captured continuation, has reached
\* Finish with K.
C11_Witness ==
    /\ program = Tree_iv_i
    /\ status = "finished"
    /\ result = K
    /\ LastOp = Finish

(***************************************************************************)
(* C12. Tail calls keep the return stack constant: in every reachable      *)
(* state of the divergent program ```sii``sii, before and after the        *)
(* auto-return check, the return stack has at most 2 frames (the sentinel  *)
(* and one frame), and the run never ends.                                 *)
(***************************************************************************)
Src_omega == <<B, B, B, "s", "i", "i", B, B, "s", "i", "i">>
Tree_omega == parse_toplevel(Src_omega)[2]

C12_ConstantRstack ==
    program = Tree_omega =>
        /\ Len(vm_state.rstack) <= 2
        /\ Len(last.mid.rstack) <= 2
        /\ status = "running"

\* Late in the run, the last Invoke of the S2 microcode applies an S2 and
\* its frame is coalesced into the one frame above the sentinel.
C12_Witness ==
    /\ program = Tree_omega
    /\ steps > 60
    /\ LastInvoke("S2")
    /\ LastPc = S2_END - 1
    /\ Len(last.pre.rstack) = 2
    /\ Len(vm_state.rstack) = 2
    /\ vm_state.pc = S2_START

(***************************************************************************)
(* C13. Determinism: in a state whose next iteration performs no Read, the *)
(* successor is a function of the current VmState and output alone (for a  *)
(* given build, debug or release, which only matters when a debug          *)
(* assertion fails): standard input is neither consulted nor consumed, and *)
(* a state whose status is not "running" has no successor.  Hence two runs *)
(* of a program that performs no Read go through the same states, print    *)
(* the same output and return equal results.                               *)
(***************************************************************************)
\* The opcode's arm on vm, with nothing to read.
Exec(opcode, vm) ==
    CASE opcode[1] = "PushImmediate" -> exec_PushImmediate(opcode[2], vm)
      [] opcode = Rot -> exec_Rot(vm)
      [] opcode = Swap -> exec_Swap(vm)
      [] opcode[1] = "CheckSuspend" -> exec_CheckSuspend(opcode[2], vm)
      [] opcode[1] = "CheckDynamicSuspend" -> exec_CheckDynamicSuspend(opcode[2], vm)
      [] opcode = Invoke -> invoke(code, vm, None)
      [] opcode = Finish -> exec_Finish(code, vm)
      [] OTHER -> Panic(vm, "placeholder not replaced during compilation")

Successor(debug_build) ==
    LET o == Exec(Fetch, vm_state)
    IN  IF o.panic # "" \/ (debug_build /\ ~o.assert_ok)
        THEN [vm_state |-> o.vm, status |-> "panic", result |-> None,
              output |-> output \o o.printed]
        ELSE IF o.ret # None
        THEN [vm_state |-> o.vm,
              status |-> IF Fetch = Finish THEN "finished" ELSE "exited",
              result |-> o.ret[2], output |-> output \o o.printed]
        ELSE [vm_state |-> auto_return(advance(Fetch, o.vm)),
              status |-> "running", result |-> None,
              output |-> output \o o.printed]

CoalescingRule(before, to, from, after) ==
    LET n == Len(before)
        top == before[n]
    IN  IF top[2] = to
        THEN /\ Len(after) = n
             /\ after[n] = <<top[1], from>>
             /\ \A i \in 1 .. n - 1 : after[i] = before[i]
        ELSE /\ Len(after) = n + 1
             /\ after[n + 1] = <<to, from>>
             /\ \A i \in 1 .. n : after[i] = before[i]

C14_PushRstack ==
    /\ LastInvoke("S2") =>
         CoalescingRule(last.pre.rstack, LastPc + 1, S2_END, last.mid.rstack)
    /\ LastInvokeD1("Application") =>
         CoalescingRule(last.pre.rstack, LastPc + 1, D1_APPLICATION_END,
                        last.mid.rstack)
    /\ LastInvokeD1("Promise") =>
         LET at == LastFun[2][2]
             before == last.pre.rstack
             top == before[Len(before)]
         IN  \E between \in {Append(before, <<LastPc + 1, D1_PROMISE_END>>),
                             Append(Pop(before), <<top[1], D1_PROMISE_END>>)} :
                 /\ CoalescingRule(before, LastPc + 1, D1_PROMISE_END, between)
                 /\ CoalescingRule(between, D1_PROMISE_START,
                                   at - 2 + Op(code, at - 1)[2], last.mid.rstack)

\* An S2 applied outside tail position, under a pending frame: its frame
\* is pushed and the frames below stay.
C14_Witness ==
    /\ LastInvoke("S2")
    /\ Len(last.pre.rstack) >= 2
    /\ Top(last.pre.rstack)[2] # LastPc + 1
    /\ Len(last.mid.rstack) = Len(last.pre.rstack) + 1
    /\ SubSeq(last.mid.rstack, 1, Len(last.pre.rstack)) = last.pre.rstack

(***************************************************************************)
(* C15. A single auto-return check per iteration suffices: whenever the    *)
(* auto-return step has popped the top frame (to, from) and set pc = to,   *)
(* a frame remains and the new top frame's from differs from pc, so no     *)
(* second return is due.                                                   *)
(***************************************************************************)
AutoReturned ==
    /\ Stepped
    /\ status = "running"
    /\ last.mid.pc = Top(last.mid.rstack)[2]

C15_SingleAutoReturn ==
    AutoReturned =>
        /\ vm_state.pc = Top(last.mid.rstack)[1]
        /\ vm_state.rstack = Pop(last.mid.rstack)
        /\ Len(vm_state.rstack) >= 1
        /\ Top(vm_state.rstack)[2] # vm_state.pc

\* An auto-return has happened into microcode, with a frame other than
\* the sentinel still pending.
C15_Witness ==
    /\ AutoReturned
    /\ Len(vm_state.rstack) >= 2
    /\ vm_state.pc < D1_APPLICATION_END

(***************************************************************************)
(* C16. S2 application with dynamic D detection: an Invoke at q that       *)
(* applies S2(v1, v2) to x over the operand stack sigma prepares           *)
(* sigma, v2, x, D1(Application(v2, x)), v1, x and enters the S2           *)
(* microcode, so (v1 x) is evaluated first.  When CheckDynamicSuspend      *)
(* finds that result r on the pre-built promise: if r is D, the stack      *)
(* becomes sigma followed by the promise, nothing of (v2 x) runs or is     *)
(* printed, and the iteration leaves the microcode through the frame made  *)
(* at q (control is after that Invoke); otherwise the promise is dropped,  *)
(* leaving v2, x, r, and the pc moves to the Rot, after which (v2 x) is    *)
(* evaluated and r applied to it.  End to end, every program of the        *)
(* fragment i k s v d e .x with an s ends as the reference semantics says. *)
(* ```s`kdri yields D1(Application(Dot(newline), I)) and prints nothing.   *)
(***************************************************************************)
Src_s_kd_ri == <<B, B, B, "s", B, "k", "d", "r", "i">>
Tree_s_kd_ri == parse_toplevel(Src_s_kd_ri)[2]

LastCheckDynamicSuspend ==
    /\ Stepped
    /\ LastOp[1] = "CheckDynamicSuspend"

C16_S2DynamicD ==
    /\ LastInvoke("S2") =>
         /\ last.mid.stack =
              LastSigma \o <<LastFun[3], LastArg,
                             D1(Application(LastFun[3], LastArg)),
                             LastFun[2], LastArg>>
         /\ last.mid.pc = S2_START
         /\ Op(code, S2_START) = Invoke
         /\ Op(code, S2_START + 1) = CheckDynamicSuspend(S2_LEN - 1)
         /\ vm_state = last.mid
         /\ last.printed = <<>>
    /\ LastCheckDynamicSuspend =>
         LET n == Len(last.pre.stack)
             r == last.pre.stack[n]
             promise == last.pre.stack[n - 1]
             x == last.pre.stack[n - 2]
             v2 == last.pre.stack[n - 3]
             sigma == PopN(last.pre.stack, 4)
             frame == Top(last.pre.rstack)
         IN  /\ n >= 4
             /\ last.panic = ""
             /\ promise = D1(Application(v2, x))
             /\ last.printed = <<>>
             /\ last.mid.rstack = last.pre.rstack
             /\ IF r = D
                THEN /\ last.mid.stack = Append(sigma, promise)
                     /\ last.mid.pc = S2_END
                     /\ frame[2] = S2_END
                     /\ vm_state.pc = frame[1]
                     /\ vm_state.rstack = Pop(last.pre.rstack)
                     /\ vm_state.stack = last.mid.stack
                ELSE /\ last.mid.stack = sigma \o <<v2, x, r>>
                     /\ last.mid.pc = LastPc + 1
                     /\ Op(code, last.mid.pc) = Rot
                     /\ vm_state = last.mid
    /\ (LeavesIn(program, {"I", "K", "S", "V", "D", "E", "Dot"}) /\ HasLeaf(program, "S"))
         => AgreesWithReference
    /\ (program = Tree_s_kd_ri /\ status # "running") =>
         /\ status = "finished"
         /\ result = D1(Application(Dot(Newline), I))
         /\ output = <<>>

\* (v1 x) was D: the promise replaced the operands of (v2 x), which was a
\* printing application, and nothing has been printed.
C16_Witness ==
    /\ LastCheckDynamicSuspend
    /\ Top(last.pre.stack) = D
    /\ Top(vm_state.stack) = D1(Application(Dot(Newline), I))
    /\ output = <<>>
    /\ vm_state.pc >= D1_APPLICATION_END

(***************************************************************************)
(* C17. Forcing an application promise: an Invoke at q that applies        *)
(* D1(Application(op, operand)) to arg over the operand stack sigma leaves *)
(* sigma, arg, op, operand and enters the D1-application microcode         *)
(* [Invoke, Swap, Invoke] at indices 7..9 with a frame whose from is       *)
(* D1_APPLICATION_END = 10: op is applied to operand, the result r is      *)
(* swapped under arg and applied to it, and when the last Invoke leaves    *)
(* the pc at 10 the iteration returns through that frame.  End to end,     *)
(* every program of the fragment i k s v d e .x with an s and a d ends as  *)
(* the reference semantics says, where the application gives (r arg).      *)
(* ````s`kdrik prints one newline and yields K.                            *)
(***************************************************************************)
Src_s_kd_rik == <<B, B, B, B, "s", B, "k", "d", "r", "i", "k">>
Tree_s_kd_rik == parse_toplevel(Src_s_kd_rik)[2]

LastRot ==
    /\ Stepped
    /\ LastOp = Rot

C18_RotMovesTopToThird ==
    LastRot =>
        LET n == Len(last.pre.stack)
            a == last.pre.stack[n - 2]
            b == last.pre.stack[n - 1]
            c == last.pre.stack[n]
        IN  /\ n >= 3
            /\ last.panic = ""
            /\ last.mid.stack = PopN(last.pre.stack, 3) \o <<c, a, b>>
            /\ last.mid.pc = LastPc + 1
            /\ last.mid.rstack = last.pre.rstack

\* C18 as stated: [..., a, b, c] becomes [..., b, c, a].
C18_RotAsStated ==
    LastRot =>
        LET n == Len(last.pre.stack)
            a == last.pre.stack[n - 2]
            b == last.pre.stack[n - 1]
            c == last.pre.stack[n]
        IN  /\ n >= 3
            /\ last.mid.stack = PopN(last.pre.stack, 3) \o <<b, c, a>>

\* Rot has run on three different operands, above an operand it left
\* alone.
C18_Witness ==
    /\ LastRot
    /\ Len(last.pre.stack) >= 4
    /\ Cardinality({last.pre.stack[Len(last.pre.stack) - i] : i \in 0 .. 2}) = 3
    /\ Top(last.mid.stack) = last.pre.stack[Len(last.pre.stack) - 1]
    /\ last.mid.stack[1] = last.pre.stack[1]

(***************************************************************************)
(* C19. Compiler layout: compile emits one PushImmediate per leaf and, for *)
(* each Application(func, arg), code(func), CheckSuspend(off) at index P,  *)
(* code(arg), Invoke, with off = len(code(arg)) + 2, so that code[P+off-1] *)
(* is that application's Invoke and P + off is the first index after it;   *)
(* no Placeholder remains in the code and run_vm never panics on one.      *)
(***************************************************************************)
RECURSIVE LaidOut(_, _)
\* The code of st starts at index start and is laid out as C19 says.
LaidOut(st, start) ==
    IF IsApplication(st)
    THEN LET P == start + CodeLen(st[2])
             off == CodeLen(st[3]) + 2
         IN  /\ LaidOut(st[2], start)
             /\ Op(code, P) = CheckSuspend(off)
             /\ LaidOut(st[3], P + 1)
             /\ Op(code, P + off - 1) = Invoke
             /\ P + off = start + CodeLen(st)
    ELSE Op(code, start) = PushImmediate(st[2])

RECURSIVE LeafCount(_)
LeafCount(st) ==
    IF IsApplication(st) THEN LeafCount(st[2]) + LeafCount(st[3]) ELSE 1

C19_CompilerLayout ==
    /\ LaidOut(program, D1_APPLICATION_END)
    /\ Len(code) = D1_APPLICATION_END + CodeLen(program) + 1
    /\ Cardinality({i \in 1 .. Len(code) : code[i][1] = "PushImmediate"})
         = LeafCount(program)
    /\ \A i \in 1 .. Len(code) : code[i] # Placeholder
    /\ (status = "running" /\ vm_state.pc \in 0 .. Len(code) - 1) => Fetch # Placeholder

\* A compiled program whose argument is an application that has an
\* application as its argument: the offsets are nested, the outermost
\* spanning the inner ones.
C19_Witness ==
    /\ IsApplication(program)
    /\ IsApplication(program[3])
    /\ IsApplication(program[3][3])
    /\ LET P == D1_APPLICATION_END + CodeLen(program[2])
       IN  /\ Op(code, P)[1] = "CheckSuspend"
           /\ Op(code, P)[2] > 6
           /\ Op(code, P + Op(code, P)[2]) = Finish
    /\ \E P \in 0 .. Len(code) - 1 : Op(code, P) = CheckSuspend(3)
    /\ Stepped

(***************************************************************************)
(* C20. Program-counter rule of Invoke: after invoke has dispatched on     *)
(* fun, the pc is one past the Invoke for I, K, K1, S, S1, V, D, Compare   *)
(* and Dot, and snapshot.pc + 1 for C1; it is still at the same Invoke,    *)
(* and code[pc] is an Invoke, for C, Read, Reprint and D1(Function); it is *)
(* S2_START for S2, the promise address for D1(Promise) and                *)
(* D1_APPLICATION_START for D1(Application).  The pc meant is the one      *)
(* invoke leaves, before the auto-return check of the iteration.           *)
(***************************************************************************)
C20_InvokePc ==
    (Stepped /\ LastOp = Invoke) =>
        /\ Len(last.pre.stack) >= 2
        /\ last.panic = ""
        /\ LastFun[1] \in {"I", "K", "K1", "S", "S1", "V", "D", "Compare", "Dot"} =>
             last.mid.pc = LastPc + 1
        /\ LastFun[1] = "C1" => last.mid.pc = LastFun[2].pc + 1
        /\ (LastFun[1] \in {"C", "Read", "Reprint"} \/ LastInvokeD1("Function")) =>
             /\ last.mid.pc = LastPc
             /\ Op(code, last.mid.pc) = Invoke
             /\ last.assert_ok
        /\ LastFun[1] = "S2" => last.mid.pc = S2_START
        /\ LastInvokeD1("Promise") => last.mid.pc = LastFun[2][2]
        /\ LastInvokeD1("Application") => last.mid.pc = D1_APPLICATION_START

\* Compare was applied while a character was current: its two values are
\* on the stack and the pc has moved past the Invoke.
C20_Witness ==
    /\ LastInvoke("Compare")
    /\ last.pre.cur_char # None
    /\ last.mid.pc = LastPc + 1
    /\ Len(last.mid.stack) = Len(last.pre.stack)

(***************************************************************************)
(* C21. Read: an Invoke that applies Read to arg over the operand stack    *)
(* sigma either takes exactly one code point ch from standard input, sets  *)
(* cur_char to Some(ch) and leaves sigma, arg, I; or, at the end of input, *)
(* takes nothing, sets cur_char to None whatever was latched and leaves    *)
(* sigma, arg, V.  Once the end of input was seen only the second happens. *)
(* The pc stays at the Invoke, so the next iteration applies arg to the I  *)
(* or the V.  Nothing is printed.                                          *)
(***************************************************************************)
ReadIsNext ==
    /\ Running
    /\ Fetch = Invoke
    /\ AppliesRead

C21_Read ==
    [][ReadIsNext =>
         LET sigma == PopN(vm_state.stack, 2)
             arg == Top(vm_state.stack)
         IN  /\ vm_state'.pc = vm_state.pc
             /\ vm_state'.rstack = vm_state.rstack
             /\ status' = "running"
             /\ output' = output
             /\ \/ /\ ~eof
                   /\ ~eof'
                   /\ consumed' = consumed + 1
                   /\ vm_state'.cur_char \in {Some(ch) : ch \in Chars}
                   /\ vm_state'.stack = sigma \o <<arg, I>>
                \/ /\ eof'
                   /\ consumed' = consumed
                   /\ vm_state'.cur_char = None
                   /\ vm_state'.stack = sigma \o <<arg, V>>]_vars

\* Read met the end of input while a character was latched: the latch is
\* now empty and V was selected.
C21_Witness ==
    /\ LastInvoke("Read")
    /\ last.pre.cur_char # None
    /\ vm_state.cur_char = None
    /\ Top(vm_state.stack) = V
    /\ consumed = 1
    /\ eof

(***************************************************************************)
(* C22. Selection by the cur_char latch: an Invoke that applies Reprint or *)
(* Compare(c) to arg over the operand stack sigma leaves sigma, arg and a  *)
(* selected value on top.  While cur_char is absent the selected value is  *)
(* V for both; when cur_char is Some(x), Reprint selects Dot(x) and        *)
(* Compare(c) selects I if x = c and V otherwise.  Neither changes         *)
(* cur_char, the return stack or the output.                               *)
(***************************************************************************)
C22_LatchSelection ==
    /\ LastInvoke("Reprint") =>
         LET selected == IF last.pre.cur_char = None
                         THEN V
                         ELSE Dot(last.pre.cur_char[2])
         IN  /\ last.mid.stack = LastSigma \o <<LastArg, selected>>
             /\ last.mid.cur_char = last.pre.cur_char
             /\ last.mid.rstack = last.pre.rstack
             /\ vm_state.cur_char = last.pre.cur_char
             /\ last.printed = <<>>
             /\ last.panic = ""
    /\ LastInvoke("Compare") =>
         LET selected == IF last.pre.cur_char = Some(LastFun[2]) THEN I ELSE V
         IN  /\ last.mid.stack = LastSigma \o <<LastArg, selected>>
             /\ last.mid.cur_char = last.pre.cur_char
             /\ last.mid.rstack = last.pre.rstack
             /\ vm_state.cur_char = last.pre.cur_char
             /\ last.printed = <<>>
             /\ last.panic = ""

\* Compare(a) was applied while the latched character was b: V was
\* selected and b is still latched.
C22_Witness ==
    /\ LastInvoke("Compare")
    /\ last.pre.cur_char = Some("b")
    /\ LastFun = <<"Compare", "a">>
    /\ Top(last.mid.stack) = V
    /\ vm_state.cur_char = Some("b")

(***************************************************************************)
(* C23. Dot output: an iteration that applies Dot(c) to arg appends        *)
(* exactly the character c to the output and otherwise leaves the machine  *)
(* where applying I to arg would; every other iteration, the one executing *)
(* Finish included, leaves the output as it is.  The output of a run is    *)
(* therefore the sequence of the Dot characters in the order their Invokes *)
(* execute.                                                                *)
(***************************************************************************)
DotIsNext ==
    /\ Running
    /\ Fetch = Invoke
    /\ Len(vm_state.stack) >= 2
    /\ vm_state.stack[Len(vm_state.stack) - 1][1] = "Dot"

C23_DotOutput ==
    [][IF DotIsNext
       THEN LET sigma == PopN(vm_state.stack, 2)
                fun == vm_state.stack[Len(vm_state.stack) - 1]
                arg == Top(vm_state.stack)
                as_I == invoke(code, [vm_state EXCEPT !.stack = sigma \o <<I, arg>>],
                               None)
            IN  /\ output' = output \o <<fun[2]>>
                /\ vm_state'.stack = sigma \o <<arg>>
                /\ vm_state' = auto_return(advance(Invoke, as_I.vm))
                /\ status' = "running"
                /\ UNCHANGED <<consumed, eof>>
       ELSE output' = output]_vars

\* Two Dot applications have run, the second one just now, and the output
\* is their two characters.
C23_Witness ==
    /\ LastInvoke("Dot")
    /\ output = <<"a", "b">>
    /\ LastFun = Dot("b")
    /\ Top(last.mid.stack) = LastArg

(***************************************************************************)
(* C24. Top-level code layout: the code compile_toplevel returns for the   *)
(* program has the S2 microcode at indices 0..4, the D1-promise microcode  *)
(* at 5..6 and the D1-application microcode at 7..9; the entry point is    *)
(* 10, where the first user opcode stands and where run_vm starts; the     *)
(* last opcode is the only Finish; and the block constants are S2_END =    *)
(* D1_PROMISE_START = 5, D1_PROMISE_END = D1_APPLICATION_START = 7 and     *)
(* D1_APPLICATION_END = 10, so that invoke's jumps into the blocks and the *)
(* frames it pushes for them carry these positions.                        *)
(***************************************************************************)
C24_TopLevelLayout ==
    LET top == compile_toplevel(program)
    IN  /\ steps = 0 =>
             /\ code = top.code
             /\ top.entry_point = 10
             /\ vm_state.pc = 10
        /\ Len(code) >= 12
        /\ <<Op(code, 0), Op(code, 1), Op(code, 2), Op(code, 3), Op(code, 4)>>
             = <<Invoke, CheckDynamicSuspend(4), Rot, Invoke, Invoke>>
        /\ <<Op(code, 5), Op(code, 6)>> = <<Swap, Invoke>>
        /\ <<Op(code, 7), Op(code, 8), Op(code, 9)>> = <<Invoke, Swap, Invoke>>
        /\ Op(code, 10)[1] = "PushImmediate"
        /\ Op(code, Len(code) - 1) = Finish
        /\ \A i \in 0 .. Len(code) - 2 : Op(code, i) # Finish
        /\ S2_START = 0
        /\ S2_END = 5
        /\ D1_PROMISE_START = 5
        /\ D1_PROMISE_END = 7
        /\ D1_APPLICATION_START = 7
        /\ D1_APPLICATION_END = 10
        /\ LastInvoke("S2") =>
             last.mid.pc = 0 /\ Top(last.mid.rstack)[2] = 5
        /\ LastInvokeD1("Promise") => Top(last.mid.rstack)[1] = 5
        /\ LastInvokeD1("Application") =>
             last.mid.pc = 7 /\ Top(last.mid.rstack)[2] = 10

\* invoke has just entered the D1-application microcode of a program of
\* more than one leaf, and the Invoke at index 7 is next.
C24_Witness ==
    /\ LastInvokeD1("Application")
    /\ vm_state.pc = 7
    /\ Fetch = Invoke
    /\ Len(code) > 12

(***************************************************************************)
(* C25. cur_char is changed only by Read: every loop iteration that does   *)
(* not apply Read leaves cur_char as it was.  In particular an Invoke that *)
(* applies a continuation C1(snapshot) to arg takes the operand stack,     *)
(* with arg pushed, the return stack and the pc from the snapshot, and     *)
(* keeps the current cur_char, not the snapshot's.                         *)
(***************************************************************************)
C1IsNext ==
    /\ Running
    /\ Fetch = Invoke
    /\ Len(vm_state.stack) >= 2
    /\ vm_state.stack[Len(vm_state.stack) - 1][1] = "C1"

C25_CurCharFrame ==
    [][/\ ~ReadIsNext => vm_state'.cur_char = vm_state.cur_char
       /\ C1IsNext =>
            LET snapshot == vm_state.stack[Len(vm_state.stack) - 1][2]
                arg == Top(vm_state.stack)
                restored == VmState(Append(snapshot.stack, arg), snapshot.rstack,
                                    snapshot.pc + 1, vm_state.cur_char)
            IN  /\ vm_state' = auto_return(restored)
                /\ vm_state'.stack = Append(snapshot.stack, arg)
                /\ vm_state'.cur_char = vm_state.cur_char]_vars

\* A continuation captured before the first Read was applied after a
\* character was latched, and the character is still latched.
C25_Witness ==
    /\ LastInvoke("C1")
    /\ LastFun[2].cur_char = None
    /\ last.pre.cur_char = Some("a")
    /\ vm_state.cur_char = Some("a")
    /\ vm_state.stack = Append(LastFun[2].stack, LastArg)

(***************************************************************************)
(* C26. One result per application: in a program that does not use c, an   *)
(* Invoke on operands sigma, fun, arg whose application completes within   *)
(* the iteration (fun is I, K, K1, S, S1, V, D, Dot or Compare: the pc     *)
(* moves to the point following the Invoke and no frame is pushed) leaves  *)
(* sigma and exactly one result value, so the operand stack is one element *)
(* shorter than before the Invoke; and an Invoke that hands the            *)
(* application over to a second run of itself (fun is Read, Reprint or     *)
(* D1 of a function) leaves sigma and the two operands of that run.        *)
(***************************************************************************)
CompletesAtOnce == {"I", "K", "K1", "S", "S1", "V", "D", "Dot", "Compare"}

C26_OneResultPerApplication ==
    ~HasLeaf(program, "C") =>
        /\ \A tag \in CompletesAtOnce :
             LastInvoke(tag) =>
                 /\ last.mid.pc = LastPc + 1
                 /\ last.mid.rstack = last.pre.rstack
                 /\ Len(last.mid.stack) = Len(last.pre.stack) - 1
                 /\ Pop(last.mid.stack) = LastSigma
        /\ (LastInvoke("Read") \/ LastInvoke("Reprint") \/ LastInvokeD1("Function")) =>
                 /\ last.mid.pc = LastPc
                 /\ last.mid.rstack = last.pre.rstack
                 /\ Len(last.mid.stack) = Len(last.pre.stack)
                 /\ PopN(last.mid.stack, 2) = LastSigma

(***************************************************************************)
(* C27. No stack underflow and no stray pc: in every reachable state       *)
(* 0 <= pc < len(code); an Invoke or a Swap about to execute finds at      *)
(* least two operands, a Rot at least three, a CheckSuspend and a Finish   *)
(* at least one and a CheckDynamicSuspend at least four; and no iteration  *)
(* has failed on a pop().unwrap() or on an index into the code or the      *)
(* stack.                                                                  *)
(***************************************************************************)
Operands == Len(vm_state.stack)

C27_NoUnderflow ==
    /\ vm_state.pc \in 0 .. Len(code) - 1
    /\ last.mid.pc \in 0 .. Len(code) - 1
    /\ last.panic = ""
    /\ Running =>
         /\ Fetch \in {Invoke, Swap} => Operands >= 2
         /\ Fetch = Rot => Operands >= 3
         /\ Fetch[1] = "CheckSuspend" => Operands >= 1
         /\ Fetch[1] = "CheckDynamicSuspend" => Operands >= 4
         /\ Fetch = Finish => Operands >= 1

\* The S2 microcode runs on an otherwise empty operand stack: its
\* CheckDynamicSuspend is next with exactly the four operands it needs.
C27_Witness ==
    /\ Running
    /\ Fetch = CheckDynamicSuspend(4)
    /\ Operands = 4
    /\ LastInvoke("I") \/ LastInvoke("K") \/ LastInvoke("S1")

====
